---- MODULE Spec2Model ----
(***************************************************************************)
(* The quantum bridge of src/neural.js (lines 166-548): the in-memory      *)
(* circuit registry, the gate applicator, the execution simulator, the     *)
(* optimization dispatcher and the activity log, as a state machine.       *)
(*                                                                         *)
(* Node runs one handler at a time and a handler gives up control only at  *)
(* an await.  Only the four optimization simulators await (a setTimeout),  *)
(* so every other handler is one step, and an optimize request is two:     *)
(* its dispatch, up to the await, and its completion, after the timer.     *)
(* Date.now() is the variable now; it is read once per step.               *)
(***************************************************************************)
EXTENDS Integers, Sequences, FiniteSets, TLC

VARIABLES
    now,         \* Date.now(), in milliseconds
    circuits,    \* the Map circuits: its entries <<key, value>> in insertion order
    activities,  \* the array activities, newest first
    timers,      \* optimize requests suspended at their delay, in dispatch order
    last,        \* the request answered last and its response
    received,    \* the number of requests received so far
    inserted     \* history: every record addActivity was given, oldest first

vars == <<now, circuits, activities, timers, last, received, inserted>>

-----------------------------------------------------------------------------
(* Bounds of the model. *)

MaxReq == 3        \* requests received in a run of Spec or SpecGate
MaxTicks == 1      \* the clock value up to which it advances by single milliseconds
MaxLogReq == 22    \* requests received in a run of SpecLog
MaxBits == 11      \* random bits drawn by one execute request of SpecExec

(* Program constants. *)

LogCapacity == 20
DefaultQubits == 4
DefaultShots == 1024
DisplayedBitstrings == 10
DelayQAOA == 100
DelayVQE == 150
DelayGrover == 80
DelayGeneric == 120

-----------------------------------------------------------------------------
(* JavaScript values.  An optional field is <<>> when the caller left it   *)
(* out and <<v>> when it was given.  A string is the sequence of its       *)
(* characters.                                                             *)

None == <<>>
Some(v) == <<v>>
OrDefault(m, d) == IF m = None THEN d ELSE m[1]

UpperCase == <<"A","B","C","D","E","F","G","H","I","J","K","L","M",
               "N","O","P","Q","R","S","T","U","V","W","X","Y","Z">>
LowerCase == <<"a","b","c","d","e","f","g","h","i","j","k","l","m",
               "n","o","p","q","r","s","t","u","v","w","x","y","z">>

LowerChar(c) ==
    IF \E i \in 1..26 : UpperCase[i] = c
    THEN LowerCase[CHOOSE i \in 1..26 : UpperCase[i] = c]
    ELSE c

UpperChar(c) ==
    IF \E i \in 1..26 : LowerCase[i] = c
    THEN UpperCase[CHOOSE i \in 1..26 : LowerCase[i] = c]
    ELSE c

toLowerCase(s) == [i \in 1..Len(s) |-> LowerChar(s[i])]
toUpperCase(s) == [i \in 1..Len(s) |-> UpperChar(s[i])]

toISOString(t) == [iso |-> t]
CircuitId(t) == [prefix |-> "qc_", n |-> t]
CircuitName(t) == <<"circuit_", t>>

Take(s, n) == IF Len(s) > n THEN SubSeq(s, 1, n) ELSE s

-----------------------------------------------------------------------------
(* The Map circuits. *)

MapKeys(m) == {m[i][1] : i \in 1..Len(m)}
MapHas(m, k) == \E i \in 1..Len(m) : m[i][1] = k
MapGet(m, k) == m[CHOOSE i \in 1..Len(m) : m[i][1] = k][2]
MapSet(m, k, v) ==
    IF MapHas(m, k)
    THEN [i \in 1..Len(m) |-> IF m[i][1] = k THEN <<k, v>> ELSE m[i]]
    ELSE Append(m, <<k, v>>)
MapSize(m) == Len(m)

-----------------------------------------------------------------------------
(* The activity log. *)

(* A full log trimmed at its front (shift) instead of its tail. *)
addActivity_DropsNewest(log, activity, t) ==
    LET added == <<[timestamp |-> t] @@ activity>> \o log
    IN  IF Len(added) > LogCapacity THEN Tail(added) ELSE added

addActivity(log, activity, t) ==
    Take(<<[timestamp |-> t] @@ activity>> \o log, LogCapacity)

Log(activity) ==
    /\ activities' = addActivity(activities, activity, now)
    /\ inserted' = Append(inserted, [timestamp |-> now] @@ activity)

NoLog == UNCHANGED <<activities, inserted>>

Respond(req, status, body) ==
    last' = [seq |-> last.seq + 1, req |-> req, status |-> status, body |-> body]

-----------------------------------------------------------------------------
Init ==
    /\ now = 0
    /\ circuits = <<>>
    /\ activities = <<>>
    /\ timers = <<>>
    /\ last = [seq |-> 0, req |-> [route |-> "none"], status |-> 0, body |-> [none |-> TRUE]]
    /\ received = 0
    /\ inserted = <<>>

(* The simulator object of the quantum-circuit library, as far as the     *)
(* handlers use it: addGate(name, -1, wires, options) puts the gate after  *)
(* the last one on its wires, and widens the circuit to the highest wire.  *)

Max(a, b) == IF a > b THEN a ELSE b

MaxWire(wires) ==
    IF wires = <<>> THEN -1
    ELSE CHOOSE w \in {wires[i] : i \in 1..Len(wires)} :
             \A j \in 1..Len(wires) : wires[j] <= w

simAddGate(circuit, name, wires, options) ==
    [numQubits |-> Max(circuit.numQubits, MaxWire(wires) + 1),
     ops |-> Append(circuit.ops, [name |-> name, wires |-> wires, options |-> options])]

simAddMeasure(circuit, wire, creg) ==
    simAddGate(circuit, "measure", <<wire>>, [creg |-> creg])

RECURSIVE simMeasureAll(_, _, _)
simMeasureAll(circuit, i, qubits) ==
    IF i < qubits
    THEN simMeasureAll(simAddMeasure(circuit, i, i), i + 1, qubits)
    ELSE circuit

-----------------------------------------------------------------------------
(* Gate names, as the strings the switch of add-gate compares with. *)

s_h == <<"h">>
s_hadamard == <<"h","a","d","a","m","a","r","d">>
s_x == <<"x">>
s_pauli_x == <<"p","a","u","l","i","-","x">>
s_y == <<"y">>
s_pauli_y == <<"p","a","u","l","i","-","y">>
s_z == <<"z">>
s_pauli_z == <<"p","a","u","l","i","-","z">>
s_cnot == <<"c","n","o","t">>
s_rx == <<"r","x">>
s_ry == <<"r","y">>
s_rz == <<"r","z">>

(* a || d, for a number a and for a string a *)
Falsy(m) == m = None \/ m[1] = 0
OrElse(m, d) == IF Falsy(m) THEN d ELSE m[1]
FalsyString(m) == m = None \/ m[1] = <<>>
OrElseString(m, d) == IF FalsyString(m) THEN d ELSE m[1]

PiOver4 == 785     \* Math.PI / 4, in thousandths

(* The case of the switch a lower-cased gate name takes: the gate the     *)
(* simulator is given, or "default".                                       *)
GateCase(g) ==
    CASE g \in {s_h, s_hadamard} -> "h"
      [] g \in {s_x, s_pauli_x} -> "x"
      [] g \in {s_y, s_pauli_y} -> "y"
      [] g \in {s_z, s_pauli_z} -> "z"
      [] g = s_cnot -> "cx"
      [] g = s_rx -> "rx"
      [] g = s_ry -> "ry"
      [] g = s_rz -> "rz"
      [] OTHER -> "default"

(* The simulator object after the addGate call of the case. *)
ApplyGate(circuit, kind, qubit, params) ==
    CASE kind \in {"h", "x", "y", "z"} ->
            simAddGate(circuit, kind, <<qubit>>, [none |-> TRUE])
      [] kind = "cx" ->
            simAddGate(circuit, "cx", <<qubit, OrElse(params.target, qubit + 1)>>,
                       [none |-> TRUE])
      [] kind \in {"rx", "ry", "rz"} ->
            simAddGate(circuit, kind, <<qubit>>, [theta |-> OrElse(params.theta, PiOver4)])

GatePush(gates, req) ==
    Append(gates, [gate |-> req.gate[1], qubit |-> req.qubit, params |-> req.params,
                   added |-> toISOString(now)])

(* The circuit registered in this step and its record inserted in a later one. *)
CreateCircuit_LogDeferred(req) ==
    LET qubits == OrDefault(req.qubits, DefaultQubits)
        name == OrDefault(req.name, CircuitName(now))
        circuitId == CircuitId(now)
    IN  /\ req.route = "create-circuit"
        /\ received' = received + 1
        /\ circuits' = MapSet(circuits, circuitId,
                              [id |-> circuitId, name |-> name, qubits |-> qubits,
                               circuit |-> [numQubits |-> qubits, ops |-> <<>>],
                               created |-> toISOString(now), gates |-> <<>>])
        /\ NoLog
        /\ Respond(req, 200, [success |-> TRUE, circuitId |-> circuitId, qubits |-> qubits])
        /\ UNCHANGED <<now, timers>>

(* POST /quantum/create-circuit.  libraryThrows, when the request has it:  *)
(* the library's constructor throws.                                       *)
Throws(req) == "libraryThrows" \in DOMAIN req /\ req.libraryThrows

CreateCircuitCatch(req, error) ==
    /\ Log([type |-> "circuit-creation-error", error |-> error])
    /\ Respond(req, 500, [error |-> error])
    /\ UNCHANGED circuits

CreateCircuit(req) ==
    LET qubits == OrDefault(req.qubits, DefaultQubits)
        name == OrDefault(req.name, CircuitName(now))
        circuit == [numQubits |-> qubits, ops |-> <<>>]
        circuitId == CircuitId(now)
    IN  /\ req.route = "create-circuit"
        /\ received' = received + 1
        /\ UNCHANGED <<now, timers>>
        /\ IF Throws(req)
           THEN CreateCircuitCatch(req, "library")
           ELSE /\ circuits' = MapSet(circuits, circuitId,
                                  [id |-> circuitId, name |-> name, qubits |-> qubits,
                                   circuit |-> circuit, created |-> toISOString(now),
                                   gates |-> <<>>])
                /\ Log([type |-> "circuit-creation", circuitId |-> circuitId,
                        qubits |-> qubits, name |-> name])
                /\ Respond(req, 200,
                       [success |-> TRUE, circuitId |-> circuitId, qubits |-> qubits])

(* POST /quantum/add-gate.  libraryThrows: the library's addGate rejects   *)
(* the gate with an exception.                                             *)

AddGateNotFound(req) ==
    /\ Respond(req, 404, [error |-> "Circuit not found"])
    /\ NoLog
    /\ UNCHANGED circuits

(* The gate recorded before the switch validates it. *)
AddGateUnknown_AfterPush(req) ==
    LET circuitData == MapGet(circuits, req.circuitId)
    IN  /\ circuits' = MapSet(circuits, req.circuitId,
              [circuitData EXCEPT !.gates = GatePush(circuitData.gates, req)])
        /\ NoLog
        /\ Respond(req, 400, [error |-> "Unknown gate", gate |-> req.gate[1]])

AddGateUnknown(req) ==
    /\ Respond(req, 400, [error |-> "Unknown gate", gate |-> req.gate[1]])
    /\ NoLog
    /\ UNCHANGED circuits

(* The gate recorded before the library is called. *)
AddGateCatch_GateRecorded(req, error) ==
    LET circuitData == MapGet(circuits, req.circuitId)
    IN  /\ Log([type |-> "gate-addition-error", error |-> error])
        /\ Respond(req, 500, [error |-> error])
        /\ circuits' = MapSet(circuits, req.circuitId,
               [circuitData EXCEPT
                   !.gates = Append(@, [gate |-> req.gate, qubit |-> req.qubit])])

AddGateCatch(req, error) ==
    /\ Log([type |-> "gate-addition-error", error |-> error])
    /\ Respond(req, 500, [error |-> error])
    /\ UNCHANGED circuits

(* totalGates read before the push. *)
AddGateApply_StaleCount(req, kind) ==
    LET circuitData == MapGet(circuits, req.circuitId)
        gates == GatePush(circuitData.gates, req)
    IN  /\ circuits' = MapSet(circuits, req.circuitId,
              [circuitData EXCEPT
                  !.circuit = ApplyGate(circuitData.circuit, kind, req.qubit, req.params),
                  !.gates = gates])
        /\ Log([type |-> "gate-addition", circuitId |-> req.circuitId,
                gate |-> req.gate[1], qubit |-> req.qubit, params |-> req.params])
        /\ Respond(req, 200, [success |-> TRUE, totalGates |-> Len(circuitData.gates)])

AddGateApply(req, kind) ==
    LET circuitData == MapGet(circuits, req.circuitId)
        gates == GatePush(circuitData.gates, req)
    IN  /\ circuits' = MapSet(circuits, req.circuitId,
              [circuitData EXCEPT
                  !.circuit = ApplyGate(circuitData.circuit, kind, req.qubit, req.params),
                  !.gates = gates])
        /\ Log([type |-> "gate-addition", circuitId |-> req.circuitId,
                gate |-> req.gate[1], qubit |-> req.qubit, params |-> req.params])
        /\ Respond(req, 200, [success |-> TRUE, totalGates |-> Len(gates)])

AddGateSwitch(req) ==
    IF req.gate = None
    THEN AddGateCatch(req, "TypeError")       \* undefined has no toLowerCase
    ELSE LET kind == GateCase(toLowerCase(req.gate[1]))
         IN  IF kind = "default" THEN AddGateUnknown(req)
             ELSE IF req.libraryThrows THEN AddGateCatch(req, "library")
             ELSE AddGateApply(req, kind)

(* The gate lower-cased before the circuit is looked up. *)
AddGate_SwitchFirst(req) ==
    /\ req.route = "add-gate"
    /\ received' = received + 1
    /\ UNCHANGED <<now, timers>>
    /\ IF req.gate = None
       THEN Log([type |-> "gate-addition-error", error |-> "TypeError"])
            /\ Respond(req, 500, [error |-> "TypeError"])
            /\ UNCHANGED circuits
       ELSE IF ~MapHas(circuits, req.circuitId)
            THEN AddGateNotFound(req)
            ELSE AddGateSwitch(req)

AddGate(req) ==
    /\ req.route = "add-gate"
    /\ received' = received + 1
    /\ UNCHANGED <<now, timers>>
    /\ IF ~MapHas(circuits, req.circuitId)
       THEN AddGateNotFound(req)
       ELSE AddGateSwitch(req)

(* A histogram that marks a bitstring as seen instead of counting it. *)
Histogram_Presence(bitstrings) ==
    [b \in {bitstrings[i] : i \in 1..Len(bitstrings)} |-> 1]

(* The histogram of the sampled bitstrings: measurements[b] counts b. *)
Histogram(bitstrings) ==
    [b \in {bitstrings[i] : i \in 1..Len(bitstrings)} |->
        Cardinality({i \in 1..Len(bitstrings) : bitstrings[i] = b})]

(* One sampled bitstring: bit j is "1" when Math.random() > 0.5. *)
Bitstring(randoms) == [j \in 1..Len(randoms) |-> IF randoms[j] THEN "1" ELSE "0"]

(* POST /quantum/execute.  randoms[i][j]: whether the j-th Math.random()   *)
(* of shot i is above 0.5.  libraryThrows: circuit.run() throws.           *)
Execute(req, randoms) ==
    LET shots == OrDefault(req.shots, DefaultShots)
    IN  /\ req.route = "execute"
        /\ received' = received + 1
        /\ UNCHANGED <<now, timers>>
        /\ IF ~MapHas(circuits, req.circuitId)
           THEN /\ Respond(req, 404, [error |-> "Circuit not found"])
                /\ NoLog
                /\ UNCHANGED circuits
           ELSE LET circuitData == MapGet(circuits, req.circuitId)
                    drawn == [randoms |-> randoms] @@ req
                    measured == simMeasureAll(circuitData.circuit, 0, circuitData.qubits)
                    bitstrings == [i \in 1..shots |-> Bitstring(randoms[i])]
                    measurements == Histogram(bitstrings)
                IN  /\ circuits' = MapSet(circuits, req.circuitId,
                                          [circuitData EXCEPT !.circuit = measured])
                    /\ IF req.libraryThrows
                       THEN /\ Log([type |-> "quantum-execution-error", error |-> "library"])
                            /\ Respond(drawn, 500, [error |-> "library"])
                       ELSE /\ Log([type |-> "quantum-execution", circuitId |-> req.circuitId,
                                    shots |-> shots, executionTime |-> 0,
                                    uniqueStates |-> Cardinality(DOMAIN measurements)])
                            /\ Respond(drawn, 200,
                                   [circuitId |-> req.circuitId, shots |-> shots,
                                    executionTime |-> 0, measurements |-> measurements,
                                    bitstrings |-> Take(bitstrings, DisplayedBitstrings),
                                    success |-> TRUE, timestamp |-> toISOString(now)])

(* The random draws an execute request on the circuit makes. *)
Randoms(req) ==
    IF MapHas(circuits, req.circuitId)
    THEN [1..OrDefault(req.shots, DefaultShots) ->
             [1..MapGet(circuits, req.circuitId).qubits -> BOOLEAN]]
    ELSE {<<>>}

RandomBits(req) ==
    IF MapHas(circuits, req.circuitId)
    THEN OrDefault(req.shots, DefaultShots) * MapGet(circuits, req.circuitId).qubits
    ELSE 0

-----------------------------------------------------------------------------
(* POST /quantum/optimize.  A Math.random() is its value in thousandths,   *)
(* 0..999, and so are the numbers computed from it.  Of a simulator's      *)
(* result the model keeps the algorithm, the improvement and the fields    *)
(* computed without Math.random().                                         *)

s_qaoa == <<"q","a","o","a">>
s_vqe == <<"v","q","e">>
s_grover == <<"g","r","o","v","e","r">>
s_UCCSD == <<"U","C","C","S","D">>

(* The switch on the tag as the caller wrote it. *)
Simulator_CaseSensitive(algorithm) ==
    LET a == algorithm
    IN  CASE a = s_qaoa -> "QAOA"
          [] a = s_vqe -> "VQE"
          [] a = s_grover -> "Grover"
          [] OTHER -> "Generic Quantum"

Simulator(algorithm) ==
    LET a == toLowerCase(algorithm)
    IN  CASE a = s_qaoa -> "QAOA"
          [] a = s_vqe -> "VQE"
          [] a = s_grover -> "Grover"
          [] OTHER -> "Generic Quantum"

Delay(sim) ==
    CASE sim = "QAOA" -> DelayQAOA
      [] sim = "VQE" -> DelayVQE
      [] sim = "Grover" -> DelayGrover
      [] OTHER -> DelayGeneric

Sqrt(n) == CHOOSE r \in 0..n : r * r = n          \* n a perfect square
Ceil(a, b) == (a + b - 1) \div b                  \* ceil(a / b), a >= 0, b > 0
PiTenThousandths == 31415                         \* Math.PI, rounded down

simulateQAOA(params, random) ==
    [algorithm |-> "QAOA", layers |-> OrElse(params.layers, 3),
     improvement |-> random * 40 + 10000, convergence |-> "achieved"]

simulateVQE(params, random) ==
    [algorithm |-> "VQE", improvement |-> random * 30 + 15000,
     ansatz |-> OrElseString(params.ansatz, s_UCCSD), convergence |-> "achieved"]

(* Math.floor in place of Math.ceil. *)
simulateGrover_Floor(params, random) ==
    LET searchSpace == OrElse(params.searchSpace, 1024)
    IN  [algorithm |-> "Grover", searchSpace |-> searchSpace,
         iterations |-> (PiTenThousandths * Sqrt(searchSpace)) \div 40000,
         improvement |-> Sqrt(searchSpace) * 1000,
         successProbability |-> 950, foundSolution |-> TRUE]

simulateGrover(params, random) ==
    LET searchSpace == OrElse(params.searchSpace, 1024)
    IN  [algorithm |-> "Grover", searchSpace |-> searchSpace,
         iterations |-> Ceil(PiTenThousandths * Sqrt(searchSpace), 40000),
         improvement |-> Sqrt(searchSpace) * 1000,
         successProbability |-> 950, foundSolution |-> TRUE]

simulateGenericOptimization(params, random) ==
    [algorithm |-> "Generic Quantum", improvement |-> random * 25 + 5000,
     classicalComparison |-> "outperformed"]

(* parameters: null is not replaced by the default {} (only undefined is), *)
(* and reading a property of null throws a TypeError.  The generic         *)
(* simulator reads none.                                                   *)
Null == [null |-> TRUE]

SimulateThrows(sim, params) == params = Null /\ sim # "Generic Quantum"

Simulate(sim, params, random) ==
    CASE sim = "QAOA" -> simulateQAOA(params, random)
      [] sim = "VQE" -> simulateVQE(params, random)
      [] sim = "Grover" -> simulateGrover(params, random)
      [] OTHER -> simulateGenericOptimization(params, random)

(* The handler up to the await of its simulator. *)
OptimizeDispatch(req) ==
    LET algorithm == OrDefault(req.algorithm, s_qaoa)
        sim == Simulator(algorithm)
    IN  /\ req.route = "optimize"
        /\ received' = received + 1
        /\ timers' = Append(timers, [id |-> received + 1, req |-> req,
                                     algorithm |-> algorithm, sim |-> sim,
                                     startTime |-> now, due |-> now + Delay(sim)])
        /\ UNCHANGED <<now, circuits, activities, last, inserted>>

(* Timers fired in the order they were set. *)
FiresNext_InDispatchOrder(i) ==
    /\ i \in 1..Len(timers)
    /\ i = 1

(* Node fires the timer that is due first; of two due at once, the one set first. *)
FiresNext(i) ==
    /\ i \in 1..Len(timers)
    /\ \A j \in 1..Len(timers) :
          \/ timers[j].due > timers[i].due
          \/ timers[j].due = timers[i].due /\ j >= i

RemoveAt(s, i) == [j \in 1..(Len(s) - 1) |-> IF j < i THEN s[j] ELSE s[j + 1]]

(* The handler from the await on: timer i has fired.  The response is     *)
(* recorded with the number of its request (the id of the timer).          *)
OptimizeSucceed(t, request, random) ==
    LET optimizationResult == Simulate(t.sim, t.req.parameters, random)
        executionTime == now - t.startTime
    IN  /\ Log([type |-> "quantum-optimization", algorithm |-> t.algorithm,
                improvement |-> optimizationResult.improvement,
                executionTime |-> executionTime])
        /\ Respond(request, 200,
               [success |-> TRUE,
                optimization |->
                   [algorithm |-> t.algorithm, result |-> optimizationResult,
                    executionTime |-> executionTime,
                    quantumAdvantage |-> optimizationResult.improvement > 10000,
                    timestamp |-> toISOString(now)],
                message |-> <<"Quantum ", toUpperCase(t.algorithm),
                              " optimization completed">>])

OptimizeCatch(request, error) ==
    /\ Log([type |-> "optimization-error", error |-> error])
    /\ Respond(request, 500, [error |-> error])

(* The response sent without the record. *)
OptimizeComplete_NoRecord(i, random) ==
    /\ FiresNext(i)
    /\ timers[i].due <= now
    /\ NoLog
    /\ Respond([id |-> timers[i].id] @@ timers[i].req, 200, [success |-> TRUE])
    /\ timers' = RemoveAt(timers, i)
    /\ UNCHANGED <<now, circuits, received>>

OptimizeComplete(i, random) ==
    /\ FiresNext(i)
    /\ timers[i].due <= now
    /\ LET t == timers[i]
           request == [id |-> t.id] @@ t.req
       IN  IF SimulateThrows(t.sim, t.req.parameters)
           THEN OptimizeCatch(request, "TypeError")
           ELSE OptimizeSucceed(t, request, random)
    /\ timers' = RemoveAt(timers, i)
    /\ UNCHANGED <<now, circuits, received>>

(* POST /quantum/ml *)
s_qsvm == <<"q","s","v","m">>

(* The response sent without the record. *)
Ml_Unrecorded(req, random) ==
    LET algorithm == OrDefault(req.algorithm, s_qsvm)
        accuracy == random.accuracy \div 5 + 800
        quantumAdvantage == random.advantage * 50 + 20000
    IN  /\ req.route = "ml"
        /\ received' = received + 1
        /\ NoLog
        /\ Respond(req, 200,
               [success |-> TRUE,
                machineLearning |-> [algorithm |-> algorithm, accuracy |-> accuracy,
                                     quantumAdvantage |-> quantumAdvantage,
                                     quantumFeatureMap |-> "ZZFeatureMap"],
                executionTime |-> 0])
        /\ UNCHANGED <<now, circuits, timers>>

Ml(req, random) ==
    LET algorithm == OrDefault(req.algorithm, s_qsvm)
        accuracy == random.accuracy \div 5 + 800       \* random * 0.2 + 0.8, rounded down
        quantumAdvantage == random.advantage * 50 + 20000
    IN  /\ req.route = "ml"
        /\ received' = received + 1
        /\ Log([type |-> "quantum-ml", algorithm |-> algorithm, accuracy |-> accuracy,
                advantage |-> quantumAdvantage])
        /\ Respond(req, 200,
               [success |-> TRUE,
                machineLearning |-> [algorithm |-> algorithm, accuracy |-> accuracy,
                                     quantumAdvantage |-> quantumAdvantage,
                                     quantumFeatureMap |-> "ZZFeatureMap"],
                executionTime |-> 0])
        /\ UNCHANGED <<now, circuits, timers>>

-----------------------------------------------------------------------------
(* The read endpoints.  Nothing writes the Map quantumStates. *)

quantumStates == <<>>

(* A read that audits itself like the other handlers. *)
GetActivities_Audited(req) ==
    /\ req.route = "activities"
    /\ received' = received + 1
    /\ Log([type |-> "activities-read"])
    /\ Respond(req, 200, [activities |-> activities, totalCircuits |-> MapSize(circuits),
                          activeStates |-> MapSize(quantumStates)])
    /\ UNCHANGED <<now, circuits, timers>>

GetActivities(req) ==
    /\ req.route = "activities"
    /\ received' = received + 1
    /\ Respond(req, 200, [activities |-> activities, totalCircuits |-> MapSize(circuits),
                          activeStates |-> MapSize(quantumStates)])
    /\ UNCHANGED <<now, circuits, activities, timers, inserted>>

GetStatus(req) ==
    /\ req.route = "status"
    /\ received' = received + 1
    /\ Respond(req, 200, [status |-> "active", lastActive |-> now,
                          circuits |-> MapSize(circuits),
                          quantumStates |-> MapSize(quantumStates)])
    /\ UNCHANGED <<now, circuits, activities, timers, inserted>>

(* The list newest first, as the activity log is. *)
GetCircuits_NewestFirst(req) ==
    LET circuitList == [i \in 1..Len(circuits) |->
                           LET c == circuits[Len(circuits) + 1 - i][2]
                           IN  [id |-> c.id, name |-> c.name, qubits |-> c.qubits,
                                gates |-> Len(c.gates), created |-> c.created]]
    IN  /\ req.route = "circuits"
        /\ received' = received + 1
        /\ Respond(req, 200, [circuits |-> circuitList, total |-> Len(circuitList)])
        /\ UNCHANGED <<now, circuits, activities, timers, inserted>>

GetCircuits(req) ==
    LET circuitList == [i \in 1..Len(circuits) |->
                           LET c == circuits[i][2]
                           IN  [id |-> c.id, name |-> c.name, qubits |-> c.qubits,
                                gates |-> Len(c.gates), created |-> c.created]]
    IN  /\ req.route = "circuits"
        /\ received' = received + 1
        /\ Respond(req, 200, [circuits |-> circuitList, total |-> Len(circuitList)])
        /\ UNCHANGED <<now, circuits, activities, timers, inserted>>

-----------------------------------------------------------------------------
(* Time.  The clock moves to the next millisecond, or to the moment a      *)
(* pending timer is due.                                                   *)

Tick ==
    /\ now < MaxTicks
    /\ now' = now + 1
    /\ UNCHANGED <<circuits, activities, timers, last, received, inserted>>

TimerWait(i) ==
    /\ i \in 1..Len(timers)
    /\ now < timers[i].due
    /\ now' = timers[i].due
    /\ UNCHANGED <<circuits, activities, timers, last, received, inserted>>

-----------------------------------------------------------------------------
(* The requests of the model. *)

NoSuchId == [prefix |-> "qc_", n |-> -1]
NoParams == [target |-> None, theta |-> None]
NoOptParams == [layers |-> None, ansatz |-> None, searchSpace |-> None]

CreateInputs ==
    {[route |-> "create-circuit", qubits |-> q[1], name |-> q[2]] :
        q \in {<<None, None>>, <<Some(2), Some(<<"t">>)>>}}

s_Hadamard == <<"H","a","d","a","m","a","r","d">>
s_bogus == <<"b","o","g","u","s">>

(* <<gate, params, libraryThrows>> *)
GateInputs ==
    {<<Some(s_Hadamard), NoParams, FALSE>>,
     <<Some(s_bogus), NoParams, FALSE>>,
     <<None, NoParams, FALSE>>}

MoreGateInputs ==
    {<<Some(s_Hadamard), NoParams, TRUE>>,
     <<Some(<<"C","N","O","T">>), [target |-> Some(0), theta |-> None], FALSE>>,
     <<Some(<<"r","z">>), [target |-> None, theta |-> None], FALSE>>,
     <<Some(<<"P","a","u","l","i","-","X">>), NoParams, FALSE>>,
     <<Some(<<>>), NoParams, FALSE>>}

AddGateInputs(gates) ==
    {[route |-> "add-gate", circuitId |-> id, gate |-> g[1], qubit |-> 0,
      params |-> g[2], libraryThrows |-> g[3]] :
        id \in MapKeys(circuits) \cup {NoSuchId}, g \in gates}

ExecuteInputs ==
    {[route |-> "execute", circuitId |-> id, shots |-> Some(1), libraryThrows |-> FALSE] :
        id \in MapKeys(circuits) \cup {NoSuchId}}

OptimizeInputs ==
    {[route |-> "optimize", algorithm |-> a, parameters |-> NoOptParams] :
        a \in {None, Some(<<"G","r","o","v","e","r">>)}}

MlInputs == {[route |-> "ml", algorithm |-> None]}

(* The registry and its requests, with optimize requests in flight. *)
Next ==
    \/ \E req \in CreateInputs : received < MaxReq /\ CreateCircuit(req)
    \/ \E req \in AddGateInputs(GateInputs) : received < MaxReq /\ AddGate(req)
    \/ \E req \in ExecuteInputs : \E randoms \in Randoms(req) :
          received < MaxReq /\ Execute(req, randoms)
    \/ \E req \in OptimizeInputs : received < MaxReq /\ OptimizeDispatch(req)
    \/ \E i \in 1..Len(timers) : \E random \in {0, 999} : OptimizeComplete(i, random)
    \/ Tick
    \/ \E i \in 1..Len(timers) : TimerWait(i)

Spec == Init /\ [][Next]_vars

(* The registry and the gate applicator alone, with more gates. *)
NextGate ==
    \/ \E req \in CreateInputs : received < MaxReq /\ CreateCircuit(req)
    \/ \E req \in AddGateInputs(GateInputs \cup MoreGateInputs) :
          received < MaxReq /\ AddGate(req)
    \/ \E req \in ExecuteInputs : \E randoms \in Randoms(req) :
          received < MaxReq /\ Execute(req, randoms)
    \/ Tick

SpecGate == Init /\ [][NextGate]_vars

(* The activity log under a long run of requests: ml requests, reads of   *)
(* the log, and the creation of one circuit somewhere among them.          *)
NextLog ==
    \/ \E req \in MlInputs :
          received < MaxLogReq /\ Ml(req, [accuracy |-> 500, advantage |-> 0])
    \/ received < MaxLogReq /\ circuits = <<>>
          /\ CreateCircuit([route |-> "create-circuit", qubits |-> None, name |-> None])
    \/ received < MaxLogReq /\ last.req.route # "activities"
          /\ GetActivities([route |-> "activities"])
    \/ Tick

SpecLog == Init /\ [][NextLog]_vars

(* One execute request on one circuit, with every outcome of its random    *)
(* draws.                                                                  *)
ExecShots == {None} \cup {Some(n) : n \in 1..(MaxBits + 1)}

NextExec ==
    \/ \E q \in {Some(0), Some(1), Some(2), None} :
          /\ circuits = <<>>
          /\ CreateCircuit([route |-> "create-circuit", qubits |-> q, name |-> None])
    \/ \E id \in MapKeys(circuits) \cup {NoSuchId} : \E shots \in ExecShots :
       \E throws \in BOOLEAN :
          LET req == [route |-> "execute", circuitId |-> id, shots |-> shots,
                      libraryThrows |-> throws]
          IN  /\ last.req.route # "execute"
              /\ RandomBits(req) <= MaxBits
              /\ \E randoms \in Randoms(req) : Execute(req, randoms)

SpecExec == Init /\ [][NextExec]_vars

(* Optimize requests of every tag, one at a time. *)
s_Grover == <<"G","r","o","v","e","r">>

OptimizeTagInputs ==
    {[route |-> "optimize", algorithm |-> a[1], parameters |-> a[2]] :
        a \in {<<None, NoOptParams>>,
               <<Some(<<"Q","A","O","A">>), NoOptParams>>,
               <<Some(<<"V","q","e">>), NoOptParams>>,
               <<Some(s_Grover), NoOptParams>>,
               <<Some(s_grover), [NoOptParams EXCEPT !.searchSpace = Some(1024)]>>,
               <<Some(s_Grover), [NoOptParams EXCEPT !.searchSpace = Some(16)]>>,
               <<Some(<<"a","n","n","e","a","l">>), NoOptParams>>}}

OptimizeRandoms == {0, 200, 201}

NextOpt ==
    \/ \E req \in OptimizeTagInputs :
          received < MaxReq /\ timers = <<>> /\ OptimizeDispatch(req)
    \/ \E i \in 1..Len(timers) : \E random \in OptimizeRandoms : OptimizeComplete(i, random)
    \/ \E i \in 1..Len(timers) : TimerWait(i)

SpecOpt == Init /\ [][NextOpt]_vars

(* Optimize requests of different delays in flight together, with ml       *)
(* requests handled meanwhile.  One of the optimize requests carries       *)
(* parameters: null, which its simulator fails on after the delay.         *)
OptimizeRaceInputs ==
    {[route |-> "optimize", algorithm |-> a[1], parameters |-> a[2]] :
        a \in {<<Some(<<"V","Q","E">>), NoOptParams>>,
               <<Some(s_Grover), NoOptParams>>,
               <<None, Null>>}}

NextPending ==
    \/ \E req \in OptimizeRaceInputs : received < MaxReq /\ OptimizeDispatch(req)
    \/ \E i \in 1..Len(timers) : OptimizeComplete(i, 0)
    \/ \E req \in MlInputs :
          received < MaxReq /\ Ml(req, [accuracy |-> 500, advantage |-> 0])
    \/ \E i \in 1..Len(timers) : TimerWait(i)

NextRace ==
    \/ NextPending
    \/ Tick

SpecRace == Init /\ [][NextRace]_vars

(* Node's event loop: while a timer is pending the clock reaches its due   *)
(* time, and a timer that is due fires and resumes its handler.  Requests  *)
(* arrive at the times the clock reaches that way.                         *)
SpecRaceFair ==
    /\ Init /\ [][NextPending]_vars
    /\ WF_vars(\E i \in 1..Len(timers) : TimerWait(i))
    /\ WF_vars(\E i \in 1..Len(timers) : OptimizeComplete(i, 0))

(* Gates that take a parameter, with the parameter omitted, zero and      *)
(* non-zero.                                                               *)
ParamGateInputs ==
    {[route |-> "add-gate", circuitId |-> id, gate |-> Some(g[1]), qubit |-> g[2],
      params |-> g[3], libraryThrows |-> FALSE] :
        id \in MapKeys(circuits),
        g \in {<<s_cnot, q, [target |-> t, theta |-> None]>> :
                   q \in {0, 1}, t \in {None, Some(0), Some(2)}}
              \cup {<<r, 0, [target |-> None, theta |-> th]>> :
                   r \in {<<"r","x">>, <<"R","Y">>, s_rz},
                   th \in {None, Some(0), Some(2 * PiOver4)}}}

NextParams ==
    \/ received < MaxReq
          /\ CreateCircuit([route |-> "create-circuit", qubits |-> None, name |-> None])
    \/ \E req \in ParamGateInputs : received < MaxReq /\ AddGate(req)

SpecParams == Init /\ [][NextParams]_vars

(* Requests that throw inside their handler, among requests that do not. *)
FailingGateInputs ==
    {<<Some(s_Hadamard), NoParams, FALSE>>,
     <<Some(s_Hadamard), NoParams, TRUE>>,
     <<Some(s_bogus), NoParams, TRUE>>,
     <<None, NoParams, FALSE>>}

NextFail ==
    \/ \E throws \in BOOLEAN :
          /\ received < MaxReq
          /\ CreateCircuit([route |-> "create-circuit", qubits |-> Some(1), name |-> None,
                            libraryThrows |-> throws])
    \/ \E req \in AddGateInputs(FailingGateInputs) : received < MaxReq /\ AddGate(req)
    \/ \E req \in ExecuteInputs : \E randoms \in Randoms(req) : \E throws \in BOOLEAN :
          /\ received < MaxReq
          /\ Execute([req EXCEPT !.libraryThrows = throws], randoms)
    \/ Tick

SpecFail == Init /\ [][NextFail]_vars

(* Every POST request, after a burst of ml requests that fills the log    *)
(* nearly to its capacity.                                                 *)
Burst == MaxLogReq - MaxReq

NextPosts ==
    \/ \E req \in MlInputs :
          received < MaxLogReq /\ Ml(req, [accuracy |-> 500, advantage |-> 0])
    \/ received >= Burst /\ received < MaxLogReq
          /\ CreateCircuit([route |-> "create-circuit", qubits |-> Some(1), name |-> None])
    \/ \E req \in AddGateInputs({<<Some(s_Hadamard), NoParams, FALSE>>,
                                 <<Some(s_bogus), NoParams, FALSE>>,
                                 <<None, NoParams, FALSE>>}) :
          received >= Burst /\ received < MaxLogReq /\ AddGate(req)
    \/ \E req \in ExecuteInputs : \E randoms \in Randoms(req) :
          received >= Burst /\ received < MaxLogReq /\ Execute(req, randoms)
    \/ \E req \in {[route |-> "optimize", algorithm |-> Some(s_Grover),
                    parameters |-> p] : p \in {NoOptParams, Null}} :
          received >= Burst /\ received < MaxLogReq /\ OptimizeDispatch(req)
    \/ \E i \in 1..Len(timers) : OptimizeComplete(i, 0)
    \/ \E i \in 1..Len(timers) : TimerWait(i)

SpecPosts == Init /\ [][NextPosts]_vars

(* The registry with its read endpoints. *)
NextRead ==
    \/ \E req \in CreateInputs \cup
                  {[route |-> "create-circuit", qubits |-> Some(1), name |-> None]} :
          received < MaxReq /\ CreateCircuit(req)
    \/ \E req \in AddGateInputs({<<Some(s_Hadamard), NoParams, FALSE>>}) :
          received < MaxReq /\ AddGate(req)
    \/ received < MaxReq /\ GetActivities([route |-> "activities"])
    \/ received < MaxReq /\ GetStatus([route |-> "status"])
    \/ received < MaxReq /\ GetCircuits([route |-> "circuits"])
    \/ Tick

SpecRead == Init /\ [][NextRead]_vars

-----------------------------------------------------------------------------
(* Properties. *)

Min(a, b) == IF a < b THEN a ELSE b
IsPrefix(s, t) == Len(s) <= Len(t) /\ SubSeq(t, 1, Len(s)) = s
Responded == last'.seq = last.seq + 1

(* C1: the activity log never holds more than 20 records, and it holds the *)
(* most recently inserted ones, newest first: all of them while fewer than *)
(* 20 were inserted, the last 20 afterwards.                               *)
C1_LogHoldsMostRecent ==
    /\ Len(activities) <= LogCapacity
    /\ Len(activities) = Min(Len(inserted), LogCapacity)
    /\ \A i \in 1..Len(activities) : activities[i] = inserted[Len(inserted) + 1 - i]

C1_Witness ==
    /\ Len(inserted) = LogCapacity + 2
    /\ inserted[1].type = "circuit-creation"
    /\ \A i \in 1..Len(activities) : activities[i].type = "quantum-ml"

(* C2: every error response (404, 400, 500) leaves the error record of its *)
(* handler at the front of the log; a rejected add-gate request leaves a   *)
(* "gate-addition-error" record there.                                     *)
ErrorType(route) ==
    CASE route = "create-circuit" -> "circuit-creation-error"
      [] route = "add-gate" -> "gate-addition-error"
      [] route = "execute" -> "quantum-execution-error"
      [] route = "optimize" -> "optimization-error"
      [] OTHER -> "quantum-ml-error"

C2_ErrorPathsLogged ==
    last.status \in {400, 404, 500} =>
        /\ activities # <<>>
        /\ activities[1].type = ErrorType(last.req.route)

(* C3: the registry holds one circuit per successful create-circuit        *)
(* request: each one registered a circuit under an id not yet in use.      *)
C3_CreatesRegisterFreshIds ==
    MapSize(circuits) =
        Cardinality({i \in 1..Len(inserted) : inserted[i].type = "circuit-creation"})

(* C4: in every step, every registered circuit stays registered and its    *)
(* gate sequence is extended, never edited, shortened or reset.            *)
C4_GatesAppendOnly ==
    [][\A id \in MapKeys(circuits) :
          /\ MapHas(circuits', id)
          /\ IsPrefix(MapGet(circuits, id).gates, MapGet(circuits', id).gates)]_vars

(* C5: an add-gate request on a registered circuit with a gate name that   *)
(* is outside the vocabulary once lower-cased is answered 400 and changes  *)
(* no circuit and not the registry.                                        *)
C5_UnknownGateRejected ==
    [][(/\ Responded
        /\ last'.req.route = "add-gate"
        /\ MapHas(circuits, last'.req.circuitId)
        /\ last'.req.gate # None
        /\ GateCase(toLowerCase(last'.req.gate[1])) = "default")
       => (last'.status = 400 /\ circuits' = circuits)]_vars

C5_Witness ==
    /\ last.req.route = "add-gate"
    /\ last.status = 400
    /\ MapHas(circuits, last.req.circuitId)
    /\ Len(MapGet(circuits, last.req.circuitId).gates) = 1

(* C6: an add-gate request with a recognized gate name on a registered     *)
(* circuit succeeds unless the library throws, and a successful one adds   *)
(* exactly one gate to that circuit, returns the new count as totalGates   *)
(* and changes no other circuit and not the set of registered ids.         *)
C6_KnownGateAppendsOne ==
    [][(Responded /\ last'.req.route = "add-gate") =>
         LET req == last'.req
             id == req.circuitId
             recognized == req.gate # None /\ GateCase(toLowerCase(req.gate[1])) # "default"
         IN  /\ (MapHas(circuits, id) /\ recognized /\ ~req.libraryThrows)
                    => last'.status = 200
             /\ last'.status = 200 =>
                    /\ MapHas(circuits, id) /\ recognized
                    /\ Len(MapGet(circuits', id).gates) = Len(MapGet(circuits, id).gates) + 1
                    /\ last'.body.totalGates = Len(MapGet(circuits', id).gates)
                    /\ MapKeys(circuits') = MapKeys(circuits)
                    /\ \A k \in MapKeys(circuits) \ {id} :
                          MapGet(circuits', k) = MapGet(circuits, k)]_vars

C6_Witness ==
    /\ last.req.route = "add-gate"
    /\ last.status = 200
    /\ last.req.gate = Some(s_Hadamard)
    /\ last.body.totalGates = 1
    /\ MapSize(circuits) = 2

(* C7: an add-gate or execute request that names an unregistered circuit   *)
(* is answered 404, whatever its gate, and changes neither the registry    *)
(* nor any circuit.                                                        *)
C7_UnknownCircuitNotFound ==
    [][(/\ Responded
        /\ last'.req.route \in {"add-gate", "execute"}
        /\ ~MapHas(circuits, last'.req.circuitId))
       => (last'.status = 404 /\ circuits' = circuits)]_vars

C7_Witness ==
    /\ last.req.route = "add-gate"
    /\ last.status = 404
    /\ last.req.gate = None
    /\ circuits # <<>>

(* C8: every step that registers a circuit or appends a gate also inserts  *)
(* the record of that mutation, so that no other request, in flight or     *)
(* new, runs between the two.                                              *)
Recorded(c) ==
    [id |-> c.id, name |-> c.name, qubits |-> c.qubits, created |-> c.created,
     gates |-> c.gates]

C8_MutationLoggedInSameStep ==
    [][\A id \in MapKeys(circuits') :
          (\/ ~MapHas(circuits, id)
           \/ Recorded(MapGet(circuits', id)) # Recorded(MapGet(circuits, id)))
          => /\ Len(inserted') = Len(inserted) + 1
             /\ activities'[1] = inserted'[Len(inserted')]
             /\ activities'[1].type \in {"circuit-creation", "gate-addition"}
             /\ activities'[1].circuitId = id]_vars

C8_Witness ==
    /\ timers # <<>>
    /\ last.req.route = "add-gate"
    /\ last.status = 200
    /\ activities[1].type = "gate-addition"
    /\ activities[2].type = "circuit-creation"

(* C9: a successful execute request with S shots on a circuit of Q qubits  *)
(* returns a histogram whose counts sum to S and the first min(S, 10)      *)
(* sampled strings in the order drawn; every string and every histogram    *)
(* key has length Q and only the characters 0 and 1.                       *)
RECURSIVE SumOver(_, _)
SumOver(f, keys) ==
    IF keys = {} THEN 0
    ELSE LET k == CHOOSE x \in keys : TRUE
         IN  f[k] + SumOver(f, keys \ {k})

IsBitstring(b, q) == Len(b) = q /\ \A j \in 1..Len(b) : b[j] \in {"0", "1"}

C9_ExecuteShape ==
    (last.req.route = "execute" /\ last.status = 200) =>
        LET S == last.body.shots
            Q == MapGet(circuits, last.req.circuitId).qubits
            measurements == last.body.measurements
            bitstrings == last.body.bitstrings
        IN  /\ S = OrDefault(last.req.shots, DefaultShots)
            /\ SumOver(measurements, DOMAIN measurements) = S
            /\ Len(bitstrings) = Min(S, 10)
            /\ \A i \in 1..Len(bitstrings) :
                  /\ bitstrings[i] = Bitstring(last.req.randoms[i])
                  /\ IsBitstring(bitstrings[i], Q)
                  /\ bitstrings[i] \in DOMAIN measurements
            /\ \A b \in DOMAIN measurements : IsBitstring(b, Q)

C9_Witness ==
    /\ last.req.route = "execute"
    /\ last.status = 200
    /\ last.body.shots = 11
    /\ Len(last.body.bitstrings) = 10
    /\ MapGet(circuits, last.req.circuitId).qubits = 1
    /\ DOMAIN last.body.measurements = {<<"0">>, <<"1">>}
    /\ last.body.measurements[<<"1">>] = 4

(* C10: an execute request changes no circuit, neither its recorded gates  *)
(* nor its simulator object, and not the registry.                         *)
C10_ExecuteChangesNoCircuit ==
    [][(Responded /\ last'.req.route = "execute") => circuits' = circuits]_vars

(* C11: list-circuits returns one summary per registered circuit, in the   *)
(* order of registration, with gates the length of its gate sequence and   *)
(* total the size of the registry; right after the first request, a        *)
(* create-circuit with qubits Q, it returns exactly one entry, with        *)
(* qubits Q and gates 0.                                                   *)
C11_ListMatchesRegistry ==
    [][(Responded /\ last'.req.route = "circuits") =>
         LET list == last'.body.circuits
         IN  /\ last'.body.total = MapSize(circuits)
             /\ Len(list) = MapSize(circuits)
             /\ \A i \in 1..Len(list) :
                   /\ list[i].id = circuits[i][1]
                   /\ list[i].qubits = circuits[i][2].qubits
                   /\ list[i].name = circuits[i][2].name
                   /\ list[i].gates = Len(circuits[i][2].gates)
             /\ (last.seq = 1 /\ last.req.route = "create-circuit"
                              /\ last.req.qubits # None)
                   => /\ Len(list) = 1
                      /\ list[1].qubits = last.req.qubits[1]
                      /\ list[1].gates = 0]_vars

C11_Witness ==
    /\ last.req.route = "circuits"
    /\ last.body.total = 2
    /\ last.body.circuits[1].id = circuits[1][1]
    /\ last.body.circuits[1].qubits = 2
    /\ last.body.circuits[2].qubits = 4
    /\ last.body.circuits[2].gates = 0

(* The Grover responses for a search space of 1024. *)
GroverOf1024 ==
    /\ last.req.route = "optimize"
    /\ last.status = 200
    /\ last.body.optimization.result.algorithm = "Grover"
    /\ last.body.optimization.result.searchSpace = 1024

(* C12 as stated: a Grover optimize with searchSpace 1024, given or        *)
(* omitted, yields iterations 25 and improvement 32.                       *)
C12_GroverIterations25 ==
    GroverOf1024 =>
        /\ last.body.optimization.result.iterations = 25
        /\ last.body.optimization.result.improvement = 32 * 1000

(* C12: a Grover optimize with searchSpace 1024, given or omitted, yields  *)
(* iterations 26 and improvement 32 whatever Math.random() returns; for    *)
(* every search space, improvement is its square root and iterations the   *)
(* least integer n with n >= (pi / 4) * sqrt(searchSpace).                 *)
C12_GroverIterations26 ==
    (/\ last.req.route = "optimize"
     /\ last.status = 200
     /\ last.body.optimization.result.algorithm = "Grover") =>
        LET result == last.body.optimization.result
            given == last.req.parameters.searchSpace
            n == result.iterations
        IN  /\ result.searchSpace = IF given = None THEN 1024 ELSE given[1]
            /\ result.improvement * result.improvement = result.searchSpace * 1000 * 1000
            /\ n * 40000 >= (PiTenThousandths + 1) * (result.improvement \div 1000)
            /\ (n - 1) * 40000 < PiTenThousandths * (result.improvement \div 1000)
            /\ result.searchSpace = 1024 => n = 26 /\ result.improvement = 32 * 1000

C12_Witness ==
    /\ GroverOf1024
    /\ last.req.parameters.searchSpace = None
    /\ last.body.optimization.result.iterations = 26
    /\ last.body.optimization.result.improvement = 32 * 1000

InFlight(n) == \E k \in 1..Len(timers) : timers[k].id = n

Answered(n) == last.req.route = "optimize" /\ last.req.id = n

(* C13: every dispatched optimize request is eventually answered, whatever *)
(* is handled meanwhile; a request leaves the pending ones only by the one *)
(* response sent to it, and a response of success comes with exactly one   *)
(* inserted record, of type "quantum-optimization", carrying the request's *)
(* algorithm tag and the improvement reported.                             *)
C13_OptimizeRunsToCompletion ==
    /\ \A n \in 1..MaxReq : InFlight(n) ~> Answered(n)
    /\ [][\A k \in 1..Len(timers) :
             LET t == timers[k]
             IN  \/ \E j \in 1..Len(timers') : timers'[j] = t
                 \/ /\ Responded
                    /\ last'.req.route = "optimize"
                    /\ last'.req.id = t.id
                    /\ \A j \in 1..Len(timers') : timers'[j].id # t.id
                    /\ Len(timers') = Len(timers) - 1
                    /\ Len(inserted') = Len(inserted) + 1
                    /\ last'.status = 200 =>
                          LET record == inserted'[Len(inserted')]
                          IN  /\ record.type = "quantum-optimization"
                              /\ record.algorithm = OrDefault(t.req.algorithm, s_qaoa)
                              /\ record.improvement =
                                     last'.body.optimization.result.improvement
                              /\ activities'[1] = record]_vars
    /\ [][/\ (Responded /\ last'.req.route = "optimize") => InFlight(last'.req.id)
          /\ \A j \in 1..Len(timers') :
                \/ \E k \in 1..Len(timers) : timers[k] = timers'[j]
                \/ timers'[j].id = received' /\ received' = received + 1]_vars

C13_Witness ==
    /\ Answered(1)
    /\ last.status = 200
    /\ Len(inserted) = 3
    /\ inserted[1].type = "quantum-ml"
    /\ inserted[2].type = "optimization-error"
    /\ inserted[3].type = "quantum-optimization"

(* C14: a successful optimize ran exactly one simulator, the one its tag    *)
(* lower-cased selects: QAOA for "qaoa" and for an omitted tag, VQE for    *)
(* "vqe", Grover for "grover", the generic one for every other string; and *)
(* quantumAdvantage is true exactly when that simulator's improvement is   *)
(* greater than 10.                                                        *)
C14_SimulatorByLowerCasedTag ==
    (last.req.route = "optimize" /\ last.status = 200) =>
        LET tag == toLowerCase(OrDefault(last.req.algorithm, s_qaoa))
            optimization == last.body.optimization
            ran == optimization.result.algorithm
        IN  /\ ran = "QAOA" <=> (tag = s_qaoa \/ last.req.algorithm = None)
            /\ ran = "VQE" <=> tag = s_vqe
            /\ ran = "Grover" <=> tag = s_grover
            /\ ran = "Generic Quantum" <=> tag \notin {s_qaoa, s_vqe, s_grover}
            /\ optimization.executionTime = Delay(ran)
            /\ optimization.quantumAdvantage <=> optimization.result.improvement > 10 * 1000

C14_Witness ==
    /\ last.req.route = "optimize"
    /\ last.status = 200
    /\ last.req.algorithm = Some(<<"a","n","n","e","a","l">>)
    /\ last.body.optimization.result.algorithm = "Generic Quantum"
    /\ last.body.optimization.result.improvement = 10 * 1000
    /\ ~last.body.optimization.quantumAdvantage
    /\ \E i \in 1..Len(inserted) :
          inserted[i].algorithm = <<"Q","A","O","A">> /\ inserted[i].improvement > 10 * 1000

LastOp(circuitId) ==
    LET ops == MapGet(circuits, circuitId).circuit.ops
    IN  ops[Len(ops)]

(* C15: a gate is added with the parameter the caller supplied, zero       *)
(* included, and with the default only when the caller omitted it: a cnot  *)
(* on wires <<qubit, params.target>>, or <<qubit, qubit + 1>> without a     *)
(* target; a rotation with theta params.theta, or pi / 4 without a theta.  *)
C15_DefaultOnlyWhenOmitted ==
    (last.req.route = "add-gate" /\ last.status = 200) =>
        LET req == last.req
            kind == GateCase(toLowerCase(req.gate[1]))
            op == LastOp(req.circuitId)
        IN  /\ kind = "cx" =>
                  op.wires = <<req.qubit, IF req.params.target = None
                                          THEN req.qubit + 1
                                          ELSE req.params.target[1]>>
            /\ kind \in {"rx", "ry", "rz"} =>
                  op.options.theta = IF req.params.theta = None
                                     THEN PiOver4
                                     ELSE req.params.theta[1]

(* The request throws inside its handler. *)
Thrown(req) ==
    CASE req.route = "create-circuit" -> Throws(req)
      [] req.route = "add-gate" ->
            /\ MapHas(circuits, req.circuitId)
            /\ \/ req.gate = None
               \/ req.libraryThrows /\ GateCase(toLowerCase(req.gate[1])) # "default"
      [] req.route = "execute" -> MapHas(circuits, req.circuitId) /\ req.libraryThrows
      [] OTHER -> FALSE

SuccessType(route) ==
    CASE route = "create-circuit" -> "circuit-creation"
      [] route = "add-gate" -> "gate-addition"
      [] route = "execute" -> "quantum-execution"
      [] route = "optimize" -> "quantum-optimization"
      [] OTHER -> "quantum-ml"

PostRoutes == {"create-circuit", "add-gate", "execute", "optimize", "ml"}

DispatchedAt(record) == record.timestamp - record.executionTime

ExpiredAt(record) == DispatchedAt(record) + Delay(Simulator(record.algorithm))

(* C18: the "quantum-optimization" records are in the log in the order in  *)
(* which the delays of their requests expired, the request whose delay     *)
(* expired first being the older record, whatever the order of dispatch;   *)
(* and every record is newer than the records of the requests handled      *)
(* before it was inserted.                                                 *)
C18_LoggedInExpiryOrder ==
    \A i, j \in 1..Len(activities) :
        i < j =>
            /\ activities[i].timestamp >= activities[j].timestamp
            /\ (/\ activities[i].type = "quantum-optimization"
                /\ activities[j].type = "quantum-optimization")
                  => ExpiredAt(activities[i]) >= ExpiredAt(activities[j])

(* A Grover request dispatched after a VQE request, its record the older   *)
(* one, and the record of an ml request handled meanwhile between the two. *)
C18_Witness ==
    \E i, k, j \in 1..Len(activities) :
        /\ i < k /\ k < j
        /\ activities[i].type = "quantum-optimization"
        /\ toLowerCase(activities[i].algorithm) = s_vqe
        /\ activities[k].type = "quantum-ml"
        /\ activities[j].type = "quantum-optimization"
        /\ toLowerCase(activities[j].algorithm) = s_grover
        /\ DispatchedAt(activities[j]) > DispatchedAt(activities[i])

ReadRoutes == {"activities", "status", "circuits"}

(* C19: a read of the activities, the status or the circuits changes       *)
(* neither the registry, nor a gate sequence, nor the log, and inserts no  *)
(* record; the number of circuits it reports is the size of the registry   *)
(* and the number of quantum states it reports is 0.                       *)
C19_ReadsChangeNothing ==
    [][(Responded /\ last'.req.route \in ReadRoutes) =>
         /\ circuits' = circuits
         /\ activities' = activities
         /\ inserted' = inserted
         /\ timers' = timers
         /\ last'.status = 200
         /\ last'.req.route = "activities" =>
               /\ last'.body.totalCircuits = Len(circuits)
               /\ last'.body.activeStates = 0
               /\ last'.body.activities = activities
         /\ last'.req.route = "status" =>
               /\ last'.body.circuits = Len(circuits)
               /\ last'.body.quantumStates = 0
         /\ last'.req.route = "circuits" => last'.body.total = Len(circuits)]_vars

C19_Witness ==
    /\ last.req.route = "status"
    /\ last.body.circuits = 2
    /\ last.body.quantumStates = 0
    /\ Len(circuits) = 2
    /\ Len(activities) = 2
====
